---- MODULE Spec2Model ----
(***************************************************************************)
(* A model of notebooks/opencv-basics.ipynb: the notebook's cells run in   *)
(* order (execution stops at the first cell that raises), then the         *)
(* interact widget calls predict once per selection.                       *)
(*                                                                         *)
(* Python objects live on a heap of numpy arrays addressed by references   *)
(* (0 is None), so that aliasing and in-place drawing are visible.  The    *)
(* external libraries (cv2, numpy, darkflow, pyplot, os) are modelled as   *)
(* deterministic functions of their arguments and of the file system; each *)
(* call they receive is appended to the log of the running cell.           *)
(*                                                                         *)
(* The files are those the notebook reads: otto.jpg, the network's         *)
(* architecture and weights, and the entries of /data/images/ (a directory *)
(* that exists and may be empty); their contents do not change during a    *)
(* run.  "TFNetError" and "InferenceError" stand for whatever darkflow     *)
(* raises when it cannot load the network or cannot process an array.      *)
(***************************************************************************)
EXTENDS Integers, Sequences, FiniteSets, TLC

VARIABLES
    fs,           \* the file system: path -> [kind, bytes]
    pc,           \* the next cell to run, "widget" once all ran, or "halted"
    heap,         \* numpy arrays: reference -> array value
    img,          \* global img (a reference, 0 while unbound)
    img2,         \* global img2
    img_bytes,    \* global img_bytes
    imgarr,       \* global imgarr
    yolo,         \* global yolo, the loaded network
    predictions,  \* global predictions
    options,      \* the widget's options, the result of listdir
    calls,        \* external calls made by the cell or handler that ran last
    reads,        \* every path read from the file system so far
    last,         \* the last call of a helper or of predict: arguments, outcome
    history,      \* per image file, the outcome of the first predict call on it
    tshape,       \* thickness computation: the image shape given
    targ,         \* thickness computation: the thickness argument given
    tused         \* thickness computation: the thickness handed to cv2.rectangle

vars == <<fs, pc, heap, img, img2, img_bytes, imgarr, yolo, predictions,
          options, calls, reads, last, history, tshape, targ, tused>>

---------------------------------------------------------------------------
(* Bounds of the model. *)

\* Decoded images have 1..MaxSide rows and columns.
MaxSide == 2
\* Image shapes of the thickness computation have up to MaxDim rows or columns.
MaxDim == 201
\* Thickness arguments range over -1..MaxThickness (and None).
MaxThickness == 2

---------------------------------------------------------------------------
(* Values. *)

Max(a, b) == IF a >= b THEN a ELSE b
Min(a, b) == IF a <= b THEN a ELSE b

NoErr == ""

\* An ndarray of shape (h, w, 3): px[r][c] is the pixel's three channel values.
\* cvt counts the channel conversions applied since decoding.
NoImage == [h |-> 0, w |-> 0, px |-> <<>>, cvt |-> 0]

\* The thickness parameter of annotate: None, or an integer.
NoThickness == [isNone |-> TRUE, v |-> 0]
Thickness(v) == [isNone |-> FALSE, v |-> v]

White == <<255, 255, 255>>

\* One external call, as logged.
NoCall == [fn |-> "", path |-> "", obj |-> 0, ret |-> 0, val |-> NoImage,
           pt1 |-> <<0, 0>>, pt2 |-> <<0, 0>>, color |-> <<0, 0, 0>>,
           thickness |-> 0, arg |-> 0, out |-> <<>>]

\* The interpreter's state while a cell runs: the heap, the calls made, the
\* paths read, the exception raised (NoErr while none), and the value of the
\* last call: ret (a reference) or out (a list).
Machine(h, rd) == [heap |-> h, calls |-> <<>>, reads |-> rd, err |-> NoErr,
                   ret |-> 0, out |-> <<>>]

NewRef(h) == CHOOSE r \in 1..(Cardinality(DOMAIN h) + 1) : r \notin DOMAIN h

Put(h, r, v) == [x \in (DOMAIN h) \cup {r} |-> IF x = r THEN v ELSE h[x]]

Restrict(h, S) == [x \in (DOMAIN h) \cap S |-> h[x]]

Log(m, c) == [m EXCEPT !.calls = Append(@, c)]

Raise(m, e) == [m EXCEPT !.err = e, !.ret = 0, !.out = <<>>]

---------------------------------------------------------------------------
(* The file system and the image codec. *)

OttoPath == "otto.jpg"
CfgPath == "cfg/yolo.cfg"
WeightsPath == "/data/yolo.weights"
ImagesDir == "/data/images/"
Names == {"a.jpg", "b.png"}
Paths == {OttoPath, CfgPath, WeightsPath} \cup {ImagesDir \o n : n \in Names}

Absent == [kind |-> "absent", bytes |-> <<>>]
SubDir == [kind |-> "dir", bytes |-> <<>>]
File(b) == [kind |-> "file", bytes |-> b]

\* The encoded form of an h x w picture: a header <<h, w>>, then the pixels
\* row by row, three bytes each in B, G, R order.
PictureByte(w, k) ==
    LET p == (k - 1) \div 3
        ch == (k - 1) % 3
        r == p \div w
        c == p % w
    IN (100 * ch + 16 * r + c + 1) % 256

PictureBytes(h, w) == <<h, w>> \o [k \in 1..(3 * h * w) |-> PictureByte(w, k)]

Truncated == <<1, 1, 9>>

\* What cv2.imread and cv2.imdecode do with a file's bytes: an array in BGR
\* order, or None (NoImage here) when the bytes are no image.
Decode(b) ==
    IF Len(b) < 2 THEN NoImage
    ELSE LET h == b[1]
             w == b[2]
         IN IF h < 1 \/ w < 1 \/ Len(b) # 2 + 3 * h * w THEN NoImage
            ELSE [h |-> h, w |-> w, cvt |-> 0,
                  px |-> [r \in 1..h |-> [c \in 1..w |->
                            LET o == 2 + 3 * ((r - 1) * w + (c - 1))
                            IN <<b[o + 1], b[o + 2], b[o + 3]>>]]]

---------------------------------------------------------------------------
(* The external libraries.  Each call is skipped once an exception is       *)
(* propagating (m.err is set): Python unwinds to the cell's top level.      *)

Lookup(f) == IF f \in DOMAIN fs THEN fs[f] ELSE Absent

\* cv2.imread(f, cv2.IMREAD_COLOR): a new BGR array, or None (it does not
\* raise) when the file is missing, is no regular file or does not decode.
imread(m, f) ==
    IF m.err # NoErr THEN m
    ELSE LET e == Lookup(f)
             d == IF e.kind = "file" THEN Decode(e.bytes) ELSE NoImage
             r == IF d = NoImage THEN 0 ELSE NewRef(m.heap)
             m1 == Log(m, [NoCall EXCEPT !.fn = "cv2.imread", !.path = f, !.ret = r])
         IN [m1 EXCEPT !.reads = @ \cup {f},
                       !.heap = IF r = 0 THEN @ ELSE Put(@, r, d),
                       !.ret = r]

\* The array cv2.cvtColor(a, cv2.COLOR_BGR2RGB) returns: channels 0 and 2 swapped.
SwapChannels(a) ==
    [a EXCEPT !.cvt = @ + 1,
              !.px = [r \in 1..a.h |-> [c \in 1..a.w |->
                        <<a.px[r][c][3], a.px[r][c][2], a.px[r][c][1]>>]]]

\* cv2.cvtColor(src, cv2.COLOR_BGR2RGB): a new array; cv2.error on None.
cvtColor(m, src) ==
    IF m.err # NoErr THEN m
    ELSE LET r == IF src = 0 THEN 0 ELSE NewRef(m.heap)
             m1 == Log(m, [NoCall EXCEPT !.fn = "cv2.cvtColor", !.obj = src, !.ret = r,
                                         !.val = IF src = 0 THEN NoImage ELSE m.heap[src]])
         IN IF src = 0 THEN Raise(m1, "cv2.error")
            ELSE [m1 EXCEPT !.heap = Put(@, r, SwapChannels(m.heap[src])), !.ret = r]

\* np.copy(a): a new array with the same contents.
np_copy(m, src) ==
    IF m.err # NoErr THEN m
    ELSE LET r == NewRef(m.heap)
             m1 == Log(m, [NoCall EXCEPT !.fn = "np.copy", !.obj = src, !.ret = r,
                                         !.val = m.heap[src]])
         IN [m1 EXCEPT !.heap = Put(@, r, m.heap[src]), !.ret = r]

\* Whether cv2.rectangle colours pixel (x, y): inside the box for a negative
\* thickness (filled), else on its outline drawn thickness pixels wide (a
\* thickness of 0 draws as 1).
Covered(x, y, pt1, pt2, t) ==
    LET x1 == Min(pt1[1], pt2[1])
        x2 == Max(pt1[1], pt2[1])
        y1 == Min(pt1[2], pt2[2])
        y2 == Max(pt1[2], pt2[2])
        half == Max(t, 1) \div 2
    IN IF t < 0 THEN x1 <= x /\ x <= x2 /\ y1 <= y /\ y <= y2
       ELSE /\ x1 - half <= x /\ x <= x2 + half
            /\ y1 - half <= y /\ y <= y2 + half
            /\ ~ (/\ x1 + half < x /\ x < x2 - half
                  /\ y1 + half < y /\ y < y2 - half)

Drawn(a, pt1, pt2, color, t) ==
    [a EXCEPT !.px = [r \in 1..a.h |-> [c \in 1..a.w |->
                        IF Covered(c - 1, r - 1, pt1, pt2, t) THEN color
                        ELSE a.px[r][c]]]]

\* cv2.rectangle(a, pt1, pt2, color=, thickness=): draws on a itself.
rectangle(m, dst, pt1, pt2, color, t) ==
    IF m.err # NoErr THEN m
    ELSE LET m1 == Log(m, [NoCall EXCEPT !.fn = "cv2.rectangle", !.obj = dst,
                                         !.pt1 = pt1, !.pt2 = pt2, !.color = color,
                                         !.thickness = t])
         IN [m1 EXCEPT !.heap = Put(@, dst, Drawn(m.heap[dst], pt1, pt2, color, t)),
                       !.ret = dst]

\* plt.imshow(a): displays the array as it is at the time of the call.
imshow(m, src) ==
    IF m.err # NoErr THEN m
    ELSE Log(m, [NoCall EXCEPT !.fn = "plt.imshow", !.obj = src, !.val = m.heap[src]])

\* The detections of a network for an array: net.n boxes, the first around
\* the whole picture, the second over its left column.
Box(i, a) ==
    IF i = 1
    THEN [label |-> "dog", confidence |-> 90,
          topleft |-> [x |-> 0, y |-> 0],
          bottomright |-> [x |-> a.w - 1, y |-> a.h - 1]]
    ELSE [label |-> "sofa", confidence |-> 40,
          topleft |-> [x |-> 0, y |-> 0],
          bottomright |-> [x |-> 0, y |-> a.h - 1]]

Detect(net, a) == [i \in 1..net.n |-> Box(i, a)]

\* yolo.return_predict(a): the list of detections; it raises when the array
\* has more pixels than the network takes (net.cap).
return_predict(m, net, src) ==
    IF m.err # NoErr THEN m
    ELSE LET a == m.heap[src]
             m1 == Log(m, [NoCall EXCEPT !.fn = "return_predict", !.obj = src, !.val = a])
         IN IF a.h * a.w > net.cap THEN Raise(m1, "InferenceError")
            ELSE [m1 EXCEPT !.out = Detect(net, a),
                            !.calls[Len(m1.calls)].out = Detect(net, a)]

\* cv2.blur(a, (15, 15)): a new array of the same shape; with a kernel wider
\* than these pictures every pixel becomes the mean of its channel.
ChannelSum(a, ch) ==
    LET RECURSIVE Sum(_)
        Sum(k) == IF k = 0 THEN 0
                  ELSE a.px[((k - 1) \div a.w) + 1][((k - 1) % a.w) + 1][ch] + Sum(k - 1)
    IN Sum(a.h * a.w)

Blurred(a) ==
    LET mean == [ch \in 1..3 |-> ChannelSum(a, ch) \div (a.h * a.w)]
    IN [a EXCEPT !.px = [r \in 1..a.h |-> [c \in 1..a.w |-> mean]]]

blur(m, src) ==
    IF m.err # NoErr THEN m
    ELSE LET r == NewRef(m.heap)
             m1 == Log(m, [NoCall EXCEPT !.fn = "cv2.blur", !.obj = src, !.ret = r,
                                         !.val = m.heap[src]])
         IN [m1 EXCEPT !.heap = Put(@, r, Blurred(m.heap[src])), !.ret = r]

\* cv2.resize(a, None, fx=, fy=): a new array of the scaled shape (rounded half
\* to even), each pixel taken from the nearest source pixel.  The factors are
\* given in halves: 6 for 3, 5 for 2.5.
Scaled(n, halves) ==
    LET q == (n * halves) \div 2
    IN IF (n * halves) % 2 = 1 /\ q % 2 = 1 THEN q + 1 ELSE q

Resized(a, fx2, fy2) ==
    LET h2 == Scaled(a.h, fy2)
        w2 == Scaled(a.w, fx2)
    IN [a EXCEPT !.h = h2, !.w = w2,
                 !.px = [r \in 1..h2 |-> [c \in 1..w2 |->
                           a.px[(((r - 1) * a.h) \div h2) + 1][(((c - 1) * a.w) \div w2) + 1]]]]

resize(m, src, fx2, fy2) ==
    IF m.err # NoErr THEN m
    ELSE LET r == NewRef(m.heap)
             m1 == Log(m, [NoCall EXCEPT !.fn = "cv2.resize", !.obj = src, !.ret = r,
                                         !.val = m.heap[src], !.pt1 = <<fx2, fy2>>])
         IN [m1 EXCEPT !.heap = Put(@, r, Resized(m.heap[src], fx2, fy2)), !.ret = r]

\* cv2.warpAffine(a, rotationMatrix, (cols, rows)): a new array of cols x rows
\* pixels.  The rotation about the centre is left out; the scaling by 1.3
\* about the centre is kept (each pixel comes from the nearest source pixel).
SourceIndex(i, n) == (13 * n + 10 * (2 * i - n) + 13) \div 26

Warped(a, cols, rows) ==
    [a EXCEPT !.h = rows, !.w = cols,
              !.px = [r \in 1..rows |-> [c \in 1..cols |->
                        a.px[SourceIndex(r - 1, a.h) + 1][SourceIndex(c - 1, a.w) + 1]]]]

warpAffine(m, src, cols, rows) ==
    IF m.err # NoErr THEN m
    ELSE LET r == NewRef(m.heap)
             m0 == Log(m, [NoCall EXCEPT !.fn = "cv2.getRotationMatrix2D",
                                         !.pt1 = <<cols, rows>>, !.arg = 15])
             m1 == Log(m0, [NoCall EXCEPT !.fn = "cv2.warpAffine", !.obj = src, !.ret = r,
                                          !.val = m.heap[src], !.pt1 = <<cols, rows>>])
         IN [m1 EXCEPT !.heap = Put(@, r, Warped(m.heap[src], cols, rows)), !.ret = r]

\* open(f, "rb") and f.read(): the file's bytes; FileNotFoundError or
\* IsADirectoryError when there is no such regular file.
readBytes(m, f) ==
    IF m.err # NoErr THEN m
    ELSE LET e == Lookup(f)
             m1 == Log(m, [NoCall EXCEPT !.fn = "open", !.path = f])
             m2 == [m1 EXCEPT !.reads = @ \cup {f}]
         IN IF e.kind = "file" THEN [m2 EXCEPT !.out = e.bytes]
            ELSE Raise(m2, IF e.kind = "dir" THEN "IsADirectoryError" ELSE "FileNotFoundError")

\* np.asarray(b, dtype=np.uint8): the bytes as unsigned 8-bit values.
asarray(b) == [i \in 1..Len(b) |-> b[i] % 256]

\* cv2.imdecode(arr, cv2.IMREAD_COLOR): a new BGR array, or None.
imdecode(m, arr) ==
    IF m.err # NoErr THEN m
    ELSE LET d == Decode(arr)
             r == IF d = NoImage THEN 0 ELSE NewRef(m.heap)
             m1 == Log(m, [NoCall EXCEPT !.fn = "cv2.imdecode", !.ret = r])
         IN [m1 EXCEPT !.heap = IF r = 0 THEN @ ELSE Put(@, r, d), !.ret = r]

\* cv2.calcHist([a], [i], None, [256], [0, 256]) and plt.plot of its result.
calcHist(m, src, i) ==
    IF m.err # NoErr THEN m
    ELSE Log(m, [NoCall EXCEPT !.fn = "cv2.calcHist", !.obj = src, !.arg = i,
                               !.val = m.heap[src]])

\* TFNet(options): reads the architecture and the weights; the weights are
\* <<n, cap>>.  It raises when either file is missing or the weights are damaged.
NoNet == [loaded |-> FALSE, n |-> 0, cap |-> 0]

TFNet(m, model, load) ==
    IF m.err # NoErr THEN m
    ELSE LET m1 == Log(Log(m, [NoCall EXCEPT !.fn = "TFNet", !.path = model]),
                       [NoCall EXCEPT !.fn = "TFNet", !.path = load])
             m2 == [m1 EXCEPT !.reads = @ \cup {model, load}]
         IN IF Lookup(model).kind # "file" \/ Lookup(load).kind # "file"
               \/ Len(Lookup(load).bytes) # 2
            THEN Raise(m2, "TFNetError")
            ELSE m2

Loaded(load) == [loaded |-> TRUE, n |-> Lookup(load).bytes[1], cap |-> Lookup(load).bytes[2]]

\* The entries of the images directory, in one of the orders os.listdir may
\* give them.
Entries == {n \in Names : Lookup(ImagesDir \o n).kind # "absent"}

Listings ==
    {l \in UNION {[1..k -> Names] : k \in 0..Cardinality(Names)} :
        /\ Len(l) = Cardinality(Entries)
        /\ {l[i] : i \in 1..Len(l)} = Entries}

listdir(m, d) ==
    IF m.err # NoErr THEN m
    ELSE LET m1 == Log(m, [NoCall EXCEPT !.fn = "os.listdir", !.path = d])
         IN [m1 EXCEPT !.reads = @ \cup {d}]

---------------------------------------------------------------------------
(* The notebook's helper routines. *)

\* loadImage with a check added: it raises by itself when imread gave None.
loadImage_checked(m, f) ==
    LET m1 == imread(m, f)
    IN IF m1.ret = 0 THEN Raise(m1, "cv2.error") ELSE cvtColor(m1, m1.ret)

\* loadImage converting twice.
loadImage_twice(m, f) ==
    LET m1 == imread(m, f)
        m2 == cvtColor(m1, m1.ret)
    IN cvtColor(m2, m2.ret)

\* def loadImage(f)
loadImage(m, f) ==
    LET m1 == imread(m, f)
    IN cvtColor(m1, m1.ret)

\* The default taken whenever the argument is falsy ("if not thickness").
thicknessFor_falsy(shape, thickness) ==
    IF thickness.isNone \/ thickness.v = 0 THEN Max(shape[1], shape[2]) \div 100
    ELSE thickness.v

\* thickness = int(max(img.shape[0], img.shape[1]) / 100) when thickness is None
thicknessFor(shape, thickness) ==
    IF thickness.isNone THEN Max(shape[1], shape[2]) \div 100
    ELSE thickness.v

\* for prediction in predictions: cv2.rectangle(annotated_img, ...)
RECURSIVE drawBoxes(_, _, _, _, _)
drawBoxes(m, dst, preds, t, i) ==
    IF i > Len(preds) THEN m
    ELSE LET tl == preds[i].topleft
             br == preds[i].bottomright
         IN drawBoxes(rectangle(m, dst, <<tl.x, tl.y>>, <<br.x, br.y>>, White, t),
                      dst, preds, t, i + 1)

\* annotate without the copy: annotated_img = img.
annotate_inplace(m, src, preds, thickness) ==
    IF m.err # NoErr THEN m
    ELSE LET a == m.heap[src]
             t == thicknessFor(<<a.h, a.w, 3>>, thickness)
             m2 == drawBoxes(m, src, preds, t, 1)
         IN [m2 EXCEPT !.ret = src]

\* annotate with its loop starting one prediction late.
annotate_skipfirst(m, src, preds, thickness) ==
    IF m.err # NoErr THEN m
    ELSE LET m1 == np_copy(m, src)
             a == m.heap[src]
             t == thicknessFor(<<a.h, a.w, 3>>, thickness)
             m2 == drawBoxes(m1, m1.ret, preds, t, 2)
         IN [m2 EXCEPT !.ret = m1.ret]

\* def annotate(img, predictions, thickness=None)
annotate(m, src, preds, thickness) ==
    IF m.err # NoErr THEN m
    ELSE LET m1 == np_copy(m, src)
             annotated_img == m1.ret
             a == m.heap[src]
             t == thicknessFor(<<a.h, a.w, 3>>, thickness)
             m2 == drawBoxes(m1, annotated_img, preds, t, 1)
         IN [m2 EXCEPT !.ret = annotated_img]

\* The widget's value when it has no options.
NoSelection == "None"

\* predict recovering from a failed load: it returns an empty list instead.
predict_swallow(m, imageFile) ==
    IF imageFile = NoSelection THEN Raise(m, "TypeError")
    ELSE LET m1 == loadImage(m, ImagesDir \o imageFile)
             image == m1.ret
             m2 == return_predict(m1, yolo, image)
             preds == m2.out
             m3 == annotate(m2, image, preds, Thickness(5))
             m4 == imshow(m3, m3.ret)
         IN IF m1.err # NoErr THEN [m1 EXCEPT !.err = NoErr, !.out = <<>>, !.ret = 0]
            ELSE IF m4.err # NoErr THEN m4
            ELSE [m4 EXCEPT !.out = preds, !.ret = 0]

\* predict loading the entry's name as it is, without the directory.
predict_noprefix(m, imageFile) ==
    IF imageFile = NoSelection THEN Raise(m, "TypeError")
    ELSE LET m1 == loadImage(m, imageFile)
             image == m1.ret
             m2 == return_predict(m1, yolo, image)
             preds == m2.out
             m3 == annotate(m2, image, preds, Thickness(5))
             m4 == imshow(m3, m3.ret)
         IN IF m4.err # NoErr THEN m4
            ELSE [m4 EXCEPT !.out = preds, !.ret = 0]

\* predict calling annotate as the cell before it does, without a thickness.
predict_defaultThickness(m, imageFile) ==
    IF imageFile = NoSelection THEN Raise(m, "TypeError")
    ELSE LET m1 == loadImage(m, ImagesDir \o imageFile)
             image == m1.ret
             m2 == return_predict(m1, yolo, image)
             preds == m2.out
             m3 == annotate(m2, image, preds, NoThickness)
             m4 == imshow(m3, m3.ret)
         IN IF m4.err # NoErr THEN m4
            ELSE [m4 EXCEPT !.out = preds, !.ret = 0]

\* def predict(imageFile)
predict(m, imageFile) ==
    IF imageFile = NoSelection THEN Raise(m, "TypeError")
    ELSE LET m1 == loadImage(m, ImagesDir \o imageFile)
             image == m1.ret
             m2 == return_predict(m1, yolo, image)
             preds == m2.out
             m3 == annotate(m2, image, preds, Thickness(5))
             m4 == imshow(m3, m3.ret)
         IN IF m4.err # NoErr THEN m4
            ELSE [m4 EXCEPT !.out = preds, !.ret = 0]

---------------------------------------------------------------------------
(* The initial file system. *)

Pictures == {File(PictureBytes(h, w)) : h \in 1..MaxSide, w \in 1..MaxSide}

OttoChoices == Pictures \cup {Absent, File(Truncated)}

EntryChoices == {Absent, SubDir, File(Truncated), File(PictureBytes(1, 1)),
                 File(PictureBytes(MaxSide, MaxSide))}

WeightChoices == {Absent, File(<<0, 255>>), File(<<1, 255>>), File(<<2, 255>>),
                  File(<<2, 1>>)}

NameOf(p) == CHOOSE n \in Names : ImagesDir \o n = p

FileSystem(o, w, d) ==
    [p \in Paths |-> IF p = OttoPath THEN o
                     ELSE IF p = CfgPath THEN File(<<1>>)
                     ELSE IF p = WeightsPath THEN w
                     ELSE d[NameOf(p)]]

NoLast == [fn |-> "", file |-> "", src |-> 0, preds |-> <<>>,
           thickness |-> NoThickness, err |-> NoErr, ret |-> 0, out |-> <<>>]

NoOutcome == [seen |-> FALSE, err |-> NoErr, out |-> <<>>]

Unbound ==
    /\ heap = <<>>
    /\ img = 0
    /\ img2 = 0
    /\ img_bytes = <<>>
    /\ imgarr = <<>>
    /\ yolo = NoNet
    /\ predictions = <<>>
    /\ options = <<>>
    /\ calls = <<>>
    /\ reads = {}
    /\ last = NoLast
    /\ history = [n \in Names \cup {NoSelection} |-> NoOutcome]

NoThicknessCall ==
    /\ tshape = <<0, 0, 3>>
    /\ targ = NoThickness
    /\ tused = 0

Init ==
    /\ \E o \in OttoChoices, w \in WeightChoices, d \in [Names -> EntryChoices] :
          fs = FileSystem(o, w, d)
    /\ pc = "load"
    /\ Unbound
    /\ NoThicknessCall

---------------------------------------------------------------------------
(* The cells, in the notebook's order. *)

\* A cell starts with the arrays its globals still refer to; the temporaries
\* of the cell before are gone.
Start == Machine(Restrict(heap, {img, img2}), reads)

\* A cell ends: its effects on the heap and the file reads stand, and the
\* next cell runs unless this one raised.
Commit(m, next) ==
    /\ heap' = m.heap
    /\ calls' = m.calls
    /\ reads' = m.reads
    /\ pc' = IF m.err = NoErr THEN next ELSE "halted"

\* img = loadImage("otto.jpg")
CellLoad ==
    /\ pc = "load"
    /\ LET m == loadImage(Start, OttoPath)
       IN /\ img' = IF m.err = NoErr THEN m.ret ELSE img
          /\ Commit(m, "show")
    /\ UNCHANGED <<fs, img2, img_bytes, imgarr, yolo, predictions, options, last,
                   history, tshape, targ, tused>>

\* plt.imshow(img)
CellShow ==
    /\ pc = "show"
    /\ Commit(imshow(Start, img), "blur")
    /\ UNCHANGED <<fs, img, img2, img_bytes, imgarr, yolo, predictions, options,
                   last, history, tshape, targ, tused>>

\* plt.imshow(cv2.blur(img, (15,15)))
CellBlur ==
    /\ pc = "blur"
    /\ LET m == blur(Start, img)
       IN Commit(imshow(m, m.ret), "resize")
    /\ UNCHANGED <<fs, img, img2, img_bytes, imgarr, yolo, predictions, options,
                   last, history, tshape, targ, tused>>

\* plt.imshow(cv2.resize(img, None, fx=3, fy=3, interpolation=cv2.INTER_CUBIC))
CellResize ==
    /\ pc = "resize"
    /\ LET m == resize(Start, img, 6, 6)
       IN Commit(imshow(m, m.ret), "stretch")
    /\ UNCHANGED <<fs, img, img2, img_bytes, imgarr, yolo, predictions, options,
                   last, history, tshape, targ, tused>>

\* plt.imshow(cv2.resize(img, None, fx=2.5, fy=3, interpolation=cv2.INTER_CUBIC))
CellStretch ==
    /\ pc = "stretch"
    /\ LET m == resize(Start, img, 5, 6)
       IN Commit(imshow(m, m.ret), "warp")
    /\ UNCHANGED <<fs, img, img2, img_bytes, imgarr, yolo, predictions, options,
                   last, history, tshape, targ, tused>>

\* rows, cols, _ = img.shape ... plt.imshow(cv2.warpAffine(img, rotationMatrix, (cols, rows)))
CellWarp ==
    /\ pc = "warp"
    /\ LET rows == heap[img].h
           cols == heap[img].w
           m == warpAffine(Start, img, cols, rows)
       IN Commit(imshow(m, m.ret), "read")
    /\ UNCHANGED <<fs, img, img2, img_bytes, imgarr, yolo, predictions, options,
                   last, history, tshape, targ, tused>>

\* with open("otto.jpg", "rb") as f: img_bytes = bytearray(f.read())
CellRead ==
    /\ pc = "read"
    /\ LET m == readBytes(Start, OttoPath)
       IN /\ img_bytes' = IF m.err = NoErr THEN m.out ELSE img_bytes
          /\ Commit(m, "asarray")
    /\ UNCHANGED <<fs, img, img2, imgarr, yolo, predictions, options, last,
                   history, tshape, targ, tused>>

\* imgarr = np.asarray(img_bytes, dtype=np.uint8)
CellAsArray ==
    /\ pc = "asarray"
    /\ imgarr' = asarray(img_bytes)
    /\ Commit(Log(Start, [NoCall EXCEPT !.fn = "np.asarray"]), "decode")
    /\ UNCHANGED <<fs, img, img2, img_bytes, yolo, predictions, options, last,
                   history, tshape, targ, tused>>

\* The decode cell without its conversion.
CellDecode_noConvert ==
    /\ pc = "decode"
    /\ LET m1 == imdecode(Start, imgarr)
       IN /\ img2' = m1.ret
          /\ Commit(m1, "show2")
    /\ UNCHANGED <<fs, img, img_bytes, imgarr, yolo, predictions, options, last,
                   history, tshape, targ, tused>>

\* img2 = cv2.imdecode(imgarr, cv2.IMREAD_COLOR); img2 = cv2.cvtColor(img2, cv2.COLOR_BGR2RGB)
CellDecode ==
    /\ pc = "decode"
    /\ LET m1 == imdecode(Start, imgarr)
           m2 == cvtColor(m1, m1.ret)
       IN /\ img2' = IF m2.err = NoErr THEN m2.ret ELSE m1.ret
          /\ Commit(m2, "show2")
    /\ UNCHANGED <<fs, img, img_bytes, imgarr, yolo, predictions, options, last,
                   history, tshape, targ, tused>>

\* plt.imshow(img2)
CellShow2 ==
    /\ pc = "show2"
    /\ Commit(imshow(Start, img2), "hist")
    /\ UNCHANGED <<fs, img, img2, img_bytes, imgarr, yolo, predictions, options,
                   last, history, tshape, targ, tused>>

\* for i, color in enumerate(["r", "g", "b"]): histogram = cv2.calcHist([img], [i], ...)
CellHist ==
    /\ pc = "hist"
    /\ Commit(calcHist(calcHist(calcHist(Start, img, 0), img, 1), img, 2), "tfnet")
    /\ UNCHANGED <<fs, img, img2, img_bytes, imgarr, yolo, predictions, options,
                   last, history, tshape, targ, tused>>

\* options = {"model": "cfg/yolo.cfg", "load": "/data/yolo.weights", ...}; yolo = TFNet(options)
CellTFNet ==
    /\ pc = "tfnet"
    /\ LET m == TFNet(Start, CfgPath, WeightsPath)
       IN /\ yolo' = IF m.err = NoErr THEN Loaded(WeightsPath) ELSE yolo
          /\ Commit(m, "detect")
    /\ UNCHANGED <<fs, img, img2, img_bytes, imgarr, predictions, options, last,
                   history, tshape, targ, tused>>

\* predictions = yolo.return_predict(img)
CellDetect ==
    /\ pc = "detect"
    /\ LET m == return_predict(Start, yolo, img)
       IN /\ predictions' = IF m.err = NoErr THEN m.out ELSE predictions
          /\ Commit(m, "annotate")
    /\ UNCHANGED <<fs, img, img2, img_bytes, imgarr, yolo, options, last,
                   history, tshape, targ, tused>>

\* plt.imshow(annotate(img, predictions))
CellAnnotate ==
    /\ pc = "annotate"
    /\ LET m == annotate(Start, img, predictions, NoThickness)
       IN Commit(imshow(m, m.ret), "interact")
    /\ UNCHANGED <<fs, img, img2, img_bytes, imgarr, yolo, predictions, options,
                   last, history, tshape, targ, tused>>

\* What a call of predict leaves behind for inspection.
Outcome(f, m) ==
    [NoLast EXCEPT !.fn = "predict", !.file = f, !.err = m.err, !.out = m.out]

Remember(f, m) ==
    IF history[f].seen THEN history
    ELSE [history EXCEPT ![f] = [seen |-> TRUE, err |-> m.err, out |-> m.out]]

\* interact(predict, imageFile = listdir("/data/images/")): the widget is
\* built over the listing and calls predict once with its initial value, the
\* first entry (None when there is none).  An exception of predict is shown
\* by the widget and ends that call only.
CellInteract ==
    /\ pc = "interact"
    /\ \E l \in Listings :
          LET f == IF Len(l) = 0 THEN NoSelection ELSE l[1]
              m == predict(listdir(Start, ImagesDir), f)
          IN /\ options' = l
             /\ last' = Outcome(f, m)
             /\ history' = Remember(f, m)
             /\ Commit([m EXCEPT !.err = NoErr], "widget")
    /\ UNCHANGED <<fs, img, img2, img_bytes, imgarr, yolo, predictions,
                   tshape, targ, tused>>

\* predict's body run at the top level: its predictions are the global ones.
WidgetSelect_global(f) ==
    /\ pc = "widget"
    /\ LET m == predict(Start, f)
       IN /\ last' = Outcome(f, m)
          /\ history' = Remember(f, m)
          /\ predictions' = IF m.err = NoErr THEN m.out ELSE predictions
          /\ Commit([m EXCEPT !.err = NoErr], "widget")
    /\ UNCHANGED <<fs, img, img2, img_bytes, imgarr, yolo, options,
                   tshape, targ, tused>>

\* The user selects an entry: the widget calls predict(imageFile).
WidgetSelect(f) ==
    /\ pc = "widget"
    /\ LET m == predict(Start, f)
       IN /\ last' = Outcome(f, m)
          /\ history' = Remember(f, m)
          /\ Commit([m EXCEPT !.err = NoErr], "widget")
    /\ UNCHANGED <<fs, img, img2, img_bytes, imgarr, yolo, predictions, options,
                   tshape, targ, tused>>

Next ==
    \/ CellLoad
    \/ CellShow
    \/ CellBlur
    \/ CellResize
    \/ CellStretch
    \/ CellWarp
    \/ CellRead
    \/ CellAsArray
    \/ CellDecode
    \/ CellShow2
    \/ CellHist
    \/ CellTFNet
    \/ CellDetect
    \/ CellAnnotate
    \/ CellInteract
    \/ \E i \in 1..Len(options) : WidgetSelect(options[i])

Spec == Init /\ [][Next]_vars

---------------------------------------------------------------------------
(* The helper routines on their own: loadImage on any path and annotate on  *)
(* the loaded image, with any list of boxes and any thickness, repeatedly.  *)

Corner(x, y) == [x |-> x, y |-> y]

Prediction(l, tl, br) ==
    [label |-> l, confidence |-> 50, topleft |-> tl, bottomright |-> br]

\* A box around the whole picture, one on its first pixel, and one given by
\* its other two corners; they overlap.
WholeBox == Prediction("dog", Corner(0, 0), Corner(MaxSide - 1, MaxSide - 1))
PixelBox == Prediction("cat", Corner(0, 0), Corner(0, 0))
OtherBox == Prediction("sofa", Corner(MaxSide - 1, 0), Corner(0, MaxSide - 1))

PredictionLists ==
    {<<>>, <<WholeBox>>, <<PixelBox>>, <<WholeBox, PixelBox>>, <<PixelBox, OtherBox>>,
     <<OtherBox, WholeBox, PixelBox>>}

ThicknessArgs == {NoThickness} \cup {Thickness(v) : v \in -1..MaxThickness}

HelpersInit ==
    /\ \E o \in OttoChoices, e \in EntryChoices :
          fs = FileSystem(o, Absent, [n \in Names |-> e])
    /\ pc = "helpers"
    /\ Unbound
    /\ NoThicknessCall

\* img = loadImage(f), the first call
LoadImageCall(f) ==
    /\ pc = "helpers"
    /\ last = NoLast
    /\ LET m == loadImage(Start, f)
       IN /\ img' = IF m.err = NoErr THEN m.ret ELSE img
          /\ last' = [NoLast EXCEPT !.fn = "loadImage", !.file = f, !.err = m.err,
                                    !.ret = m.ret]
          /\ Commit([m EXCEPT !.err = NoErr], "helpers")
    /\ UNCHANGED <<fs, img2, img_bytes, imgarr, yolo, predictions, options,
                   history, tshape, targ, tused>>

\* annotate(img, preds, thickness)
AnnotateCall(preds, thickness) ==
    /\ pc = "helpers"
    /\ img # 0
    /\ LET m == annotate(Start, img, preds, thickness)
       IN /\ last' = [NoLast EXCEPT !.fn = "annotate", !.src = img, !.preds = preds,
                                    !.thickness = thickness, !.err = m.err,
                                    !.ret = m.ret]
          /\ Commit([m EXCEPT !.err = NoErr], "helpers")
    /\ UNCHANGED <<fs, img, img2, img_bytes, imgarr, yolo, predictions, options,
                   history, tshape, targ, tused>>

HelpersNext ==
    \/ \E f \in Paths : LoadImageCall(f)
    \/ \E preds \in PredictionLists, thickness \in ThicknessArgs :
          AnnotateCall(preds, thickness)

SpecHelpers == HelpersInit /\ [][HelpersNext]_vars

---------------------------------------------------------------------------
(* The thickness annotate hands to cv2.rectangle, as a function of the      *)
(* image's shape and of the thickness argument.                             *)

Sides == {1, 99, 100, MaxDim}

Shapes == {<<h, w, 3>> : h \in 1..MaxDim, w \in Sides}
              \cup {<<h, w, 3>> : h \in Sides, w \in 1..MaxDim}

ThicknessInit ==
    /\ fs = FileSystem(Absent, Absent, [n \in Names |-> Absent])
    /\ pc = "thickness"
    /\ Unbound
    /\ tshape \in Shapes
    /\ targ \in ThicknessArgs
    /\ tused = 0

ThicknessCall ==
    /\ pc = "thickness"
    /\ tused' = thicknessFor(tshape, targ)
    /\ pc' = "drawn"
    /\ UNCHANGED <<fs, heap, img, img2, img_bytes, imgarr, yolo, predictions,
                   options, calls, reads, last, history, tshape, targ>>

ThicknessNext == ThicknessCall

SpecThickness == ThicknessInit /\ [][ThicknessNext]_vars

---------------------------------------------------------------------------
(* Properties. *)

\* The names of the external functions called by the cell or handler that
\* ran last, in call order.
FnNames == [i \in 1..Len(calls) |-> calls[i].fn]

Rectangles(n) == [i \in 1..n |-> "cv2.rectangle"]

\* C1: annotate never modifies the image it is given: across every call of
\* annotate, whatever the boxes and the thickness, the caller's array holds
\* the same pixels after the call as before, the array returned is another
\* object, and no rectangle is drawn on the caller's array; so the original
\* is unannotated after any sequence of calls.
C1_AnnotateLeavesImage ==
    [][(pc = "helpers" /\ img # 0 /\ last'.fn = "annotate")
          => /\ img' = img
             /\ heap'[img] = heap[img]
             /\ last'.ret # img
             /\ last'.ret \in DOMAIN heap'
             /\ \A i \in 1..Len(calls') :
                   calls'[i].fn = "cv2.rectangle" => calls'[i].obj # img]_vars

\* An annotate call with overlapping boxes has drawn on the copy it returned.
C1_Witness ==
    /\ last.fn = "annotate"
    /\ Len(last.preds) >= 2
    /\ heap[last.ret].px # heap[img].px

\* C2: for a list of n predictions annotate makes one copy and then exactly n
\* rectangle draws on it, one per prediction in list order with that
\* prediction's corners, in white, all with the same thickness; the array
\* returned has the input's shape, and equals the input when the list is empty.
C2_AnnotateDrawsEachBox ==
    last.fn = "annotate" =>
        LET n == Len(last.preds)
        IN /\ Len(calls) = n + 1
           /\ calls[1].fn = "np.copy"
           /\ calls[1].obj = img
           /\ calls[1].ret = last.ret
           /\ \A i \in 1..n :
                 LET c == calls[i + 1]
                     p == last.preds[i]
                 IN /\ c.fn = "cv2.rectangle"
                    /\ c.obj = last.ret
                    /\ c.pt1 = <<p.topleft.x, p.topleft.y>>
                    /\ c.pt2 = <<p.bottomright.x, p.bottomright.y>>
                    /\ c.color = <<255, 255, 255>>
                    /\ c.thickness = calls[2].thickness
           /\ heap[last.ret].h = heap[img].h
           /\ heap[last.ret].w = heap[img].w
           /\ (n = 0 => heap[last.ret].px = heap[img].px)

\* An annotate call with three predictions, not all the same box.
C2_Witness ==
    /\ last.fn = "annotate"
    /\ Len(last.preds) = 3
    /\ last.preds[1] # last.preds[2]
    /\ Len(calls) = 4

\* C5, as stated: the calls annotate issues do not depend on whether a
\* thickness was supplied: they are the calls it issues for the same image
\* and predictions with no thickness.
C5_CallsIgnoreThickness ==
    last.fn = "annotate" =>
        calls = annotate(Start, img, last.preds, NoThickness).calls

\* C5, amended: loadImage has no branch: it calls imread and then cvtColor,
\* whatever the path and whether or not the file decodes.  annotate has a
\* loop and one branch: it calls np.copy and then cv2.rectangle once per
\* prediction, and the thickness it passes is the one supplied, or the
\* default computed from the shape when none was supplied.
C5_HelperCallSequences ==
    /\ last.fn = "loadImage" => FnNames = <<"cv2.imread", "cv2.cvtColor">>
    /\ last.fn = "annotate" =>
          /\ FnNames = <<"np.copy">> \o Rectangles(Len(last.preds))
          /\ \A i \in 2..Len(calls) :
                calls[i].thickness =
                    IF last.thickness.isNone
                    THEN Max(heap[img].h, heap[img].w) \div 100
                    ELSE last.thickness.v

\* An annotate call with a thickness supplied that is not the default one.
C5_Witness ==
    /\ last.fn = "annotate"
    /\ ~ last.thickness.isNone
    /\ Len(last.preds) = 2
    /\ calls[2].thickness = MaxThickness
    /\ calls[2].thickness # Max(heap[img].h, heap[img].w) \div 100

\* C8, as stated: with no thickness supplied, every image whose larger
\* dimension is at least 1 gets a thickness of at least 1.
C8_DefaultAlwaysPositive ==
    (pc = "drawn" /\ targ.isNone /\ Max(tshape[1], tshape[2]) >= 1) => tused >= 1

\* C8, amended: with no thickness supplied the thickness used is the integer
\* floor of max(height, width) / 100, which is at least 1 exactly when the
\* larger dimension is at least 100 (and 0 below); a thickness supplied is
\* used unchanged.
C8_ThicknessUsed ==
    pc = "drawn" =>
        LET larger == Max(tshape[1], tshape[2])
        IN /\ targ.isNone =>
                 /\ 100 * tused <= larger
                 /\ larger < 100 * (tused + 1)
                 /\ (tused >= 1 <=> larger >= 100)
           /\ ~ targ.isNone => tused = targ.v

\* The default thickness of a 100 x 99 image is 1.
C8_Witness ==
    /\ pc = "drawn"
    /\ targ.isNone
    /\ tshape = <<100, 99, 3>>
    /\ tused = 1

\* Whether loadImage fails on a path: no regular file, or bytes that do not decode.
Undecodable(p) == Lookup(p).kind # "file" \/ Decode(Lookup(p).bytes) = NoImage

\* The external calls of the last predict call (the interact cell lists the
\* directory before its first call of predict).
PredictCalls ==
    IF Len(calls) > 0 /\ calls[1].fn = "os.listdir" THEN Tail(calls) ELSE calls

PredictNames == [i \in 1..Len(PredictCalls) |-> PredictCalls[i].fn]

\* C3: a failure propagates as the library's error, with no recovery or
\* retry.  When loadImage fails inside predict, predict ends in cv2.error
\* returning no list, after one imread and one cvtColor and no call of the
\* model, of annotate or of imshow; when the model fails, predict ends in its
\* error before annotate and imshow.  When loadImage fails at the top level
\* nothing is bound to img and the run stops.
C3_FailurePropagates ==
    /\ (last.fn = "predict" /\ last.file # NoSelection
           /\ Undecodable(ImagesDir \o last.file))
          => /\ last.err = "cv2.error"
             /\ last.out = <<>>
             /\ PredictNames = <<"cv2.imread", "cv2.cvtColor">>
             /\ PredictCalls[1].ret = 0
    /\ (last.fn = "predict" /\ last.file # NoSelection
           /\ ~ Undecodable(ImagesDir \o last.file)
           /\ Decode(Lookup(ImagesDir \o last.file).bytes).h
                 * Decode(Lookup(ImagesDir \o last.file).bytes).w > yolo.cap)
          => /\ last.err = "InferenceError"
             /\ last.out = <<>>
             /\ PredictNames = <<"cv2.imread", "cv2.cvtColor", "return_predict">>
    /\ Undecodable(OttoPath)
          => /\ img = 0
             /\ pc \in {"load", "halted"}
             /\ pc = "halted" => FnNames = <<"cv2.imread", "cv2.cvtColor">>

\* A predict call on a malformed image file has failed, after a call on
\* another entry succeeded.
C3_Witness ==
    /\ pc = "widget"
    /\ last.fn = "predict"
    /\ last.file # NoSelection
    /\ Lookup(ImagesDir \o last.file).kind = "file"
    /\ last.err = "cv2.error"
    /\ \E n \in Names : history[n].seen /\ history[n].err = NoErr

\* The paths written in the notebook's text.
Literals == {OttoPath, CfgPath, WeightsPath, ImagesDir}

\* C4, as stated: every path read is a constant of the notebook's text.
C4_OnlyLiteralPaths == reads \subseteq Literals

\* C4, amended: every path read is a constant of the notebook's text
\* ("otto.jpg", "cfg/yolo.cfg", "/data/yolo.weights", the directory
\* "/data/images/") or "/data/images/" followed by an entry that os.listdir
\* returned when the interact cell ran.
C4_PathsLiteralOrListed ==
    reads \subseteq Literals \cup {ImagesDir \o options[i] : i \in 1..Len(options)}

\* Both entries of the directory have been selected and read.
C4_Witness ==
    /\ pc = "widget"
    /\ \A n \in Names : ImagesDir \o n \in reads

\* C6: a successful predict(imageFile) calls, in this order and once each:
\* imread of "/data/images/" + imageFile and cvtColor of its result, the
\* model on that (unannotated) array, np.copy of that array and one rectangle
\* of thickness 5 per detection on the copy, and imshow of the copy; it
\* returns the list the model returned, and its image is still unannotated.
C6_PredictOrder ==
    (last.fn = "predict" /\ last.err = NoErr) =>
        LET c == PredictCalls
            n == Len(last.out)
        IN /\ Len(c) = n + 5
           /\ c[1].fn = "cv2.imread"
           /\ c[1].path = ImagesDir \o last.file
           /\ c[2].fn = "cv2.cvtColor"
           /\ c[2].obj = c[1].ret
           /\ c[3].fn = "return_predict"
           /\ c[3].obj = c[2].ret
           /\ c[3].val = SwapChannels(Decode(Lookup(ImagesDir \o last.file).bytes))
           /\ c[3].out = last.out
           /\ c[4].fn = "np.copy"
           /\ c[4].obj = c[2].ret
           /\ \A i \in 1..n :
                 /\ c[4 + i].fn = "cv2.rectangle"
                 /\ c[4 + i].obj = c[4].ret
                 /\ c[4 + i].thickness = 5
                 /\ c[4 + i].pt1 = <<last.out[i].topleft.x, last.out[i].topleft.y>>
                 /\ c[4 + i].pt2 = <<last.out[i].bottomright.x, last.out[i].bottomright.y>>
           /\ c[n + 5].fn = "plt.imshow"
           /\ c[n + 5].obj = c[4].ret
           /\ c[n + 5].val = heap[c[4].ret]
           /\ heap[c[2].ret] = c[3].val

\* A predict call has succeeded with two detections drawn.
C6_Witness ==
    /\ last.fn = "predict"
    /\ last.err = NoErr
    /\ Len(last.out) = 2
    /\ heap[PredictCalls[4].ret] # heap[PredictCalls[2].ret]

\* C7: the array decoded from the byte buffer and converted (img2) has the
\* shape and the pixels of the one loadImage gave for the same file (img),
\* and the buffer decodes whenever the file did.
C7_BufferEqualsFile ==
    /\ pc = "show2" => img2 # 0
    /\ img2 # 0 =>
          /\ img2 # img
          /\ heap[img2].h = heap[img].h
          /\ heap[img2].w = heap[img].w
          /\ heap[img2].px = heap[img].px

\* Both paths have decoded a picture of more than one pixel.
C7_Witness ==
    /\ pc = "show2"
    /\ img2 # 0
    /\ heap[img2].h * heap[img2].w > 1
    /\ heap[img2].px[1][1][1] # heap[img2].px[1][1][3]

\* C9: every array handed to plt.imshow, to annotate (its np.copy) or to the
\* model has had the BGR-to-RGB conversion applied exactly once since it was
\* decoded, as have img and img2; the arrays blur, resize and warpAffine
\* return are in the channel order of their input.
C9_ConvertedExactlyOnce ==
    /\ \A i \in 1..Len(calls) :
          /\ calls[i].fn \in {"plt.imshow", "np.copy", "return_predict"}
                => calls[i].val.cvt = 1
          /\ calls[i].fn \in {"cv2.blur", "cv2.resize", "cv2.warpAffine"}
                => heap[calls[i].ret].cvt = calls[i].val.cvt
    /\ img # 0 => heap[img].cvt = 1
    /\ img2 # 0 => heap[img2].cvt = 1

\* A predict call has handed its image to the model, to annotate and to imshow.
C9_Witness ==
    /\ last.fn = "predict"
    /\ last.err = NoErr
    /\ \E i \in 1..Len(calls) : calls[i].fn = "plt.imshow" /\ calls[i].val.cvt = 1
    /\ \E i \in 1..Len(calls) : calls[i].fn = "return_predict"

\* C10: the interact cell and every predict call of the widget, failed or
\* not, leave the globals img (and its pixels), predictions and yolo as they
\* were, and a call on an entry ends as the first call on that entry did.
C10_PredictLeavesGlobals ==
    [][(pc = "interact" \/ pc = "widget")
          => (/\ img' = img
              /\ heap'[img] = heap[img]
              /\ predictions' = predictions
              /\ yolo' = yolo
              /\ (history[last'.file].seen
                    => (/\ last'.err = history[last'.file].err
                        /\ last'.out = history[last'.file].out)))]_vars

\* Every entry has been selected, one call failed and one succeeded with
\* detections other than the global ones.
C10_Witness ==
    /\ pc = "widget"
    /\ \A n \in Names : history[n].seen
    /\ \E n \in Names : history[n].err # NoErr
    /\ last.err = NoErr
    /\ predictions # <<>>
    /\ last.out # predictions

====
